---- MODULE Spec2Model ----
(***************************************************************************)
(* State-machine model of src/src/doi-processor.ts: the DOI pipeline       *)
(* (extractDoi, fetchCrossrefMetadata, classifyPaper,                      *)
(* mapClassificationToBadge, loadCache, saveCache, processDoi) over the    *)
(* module-level cache object and the persisted cache file.                 *)
(*                                                                         *)
(* Every `await` of the source is a step boundary: an action runs the      *)
(* synchronous code from one suspension point to the next.                 *)
(***************************************************************************)
EXTENDS FiniteSets, Integers, Sequences, TLC

VARIABLES cache, file, apiKey, now, pc, call, pend, prev, pure, credited

vars == <<cache, file, apiKey, now, pc, call, pend, prev, pure, credited>>

(***************************************************************************)
(* Bounds and small input sets                                             *)
(***************************************************************************)
\* config.js CREDIT_LIMIT (imported at line 3; its value is configuration)
CREDIT_LIMIT == 2
\* the clock read by new Date() takes the values 0..MaxTime
MaxTime == 1
\* longest text (in tokens) handed to extractDoi
MaxTextLen == 5

\* flows that may run processDoi / classifyPaper / loadCache
Procs == {1, 2}
\* the one flow of sequential use
SeqProc == CHOOSE p \in Procs : \A q \in Procs : p <= q

\* DOI strings a caller passes to processDoi
Dois == {"10.1038/a", "10.1038/B"}

\* JavaScript undefined and null
Undefined == "undefined"
Null == "null"
\* an entry without the optional classification field
NoClass == "<no classification>"

\* titles and PDF links of metadata records
Titles == {"", "T"}
PdfUrls == {Undefined, "U"}
NoMeta == [title |-> "<none>", pdfUrl |-> "<none>"]

\* the records the registry may answer with for each DOI: the first DOI has a
\* title and a PDF link, the second lacks the PDF link or the title
Registry(doi) ==
  IF doi = "10.1038/a"
    THEN {[title |-> "T", pdfUrl |-> "U"]}
    ELSE {[title |-> "T", pdfUrl |-> Undefined], [title |-> "", pdfUrl |-> "U"]}

\* labels the classification service may answer with
ServiceLabels == {"Normal Science", "Not A Label", "constructor"}

(***************************************************************************)
(* Badge Mapper                                                            *)
(***************************************************************************)
KnownLabels ==
  {"Paradigm Shift", "Model Revolution", "Normal Science", "Model Crisis", "Model Drift"}

\* the object literal `mapping`
mapping(l) ==
  CASE l = "Paradigm Shift" -> "paradigm-shift"
    [] l = "Model Revolution" -> "model-revolution"
    [] l = "Normal Science" -> "normal-science"
    [] l = "Model Crisis" -> "model-crisis"
    [] l = "Model Drift" -> "model-drift"

\* property names every object literal inherits from Object.prototype
ObjectPrototypeKeys ==
  {"constructor", "toString", "toLocaleString", "valueOf", "hasOwnProperty",
   "isPrototypeOf", "propertyIsEnumerable", "__proto__"}

\* what mapping[k] yields for an inherited key: a function (or the prototype
\* object), which is truthy and is neither a badge string nor null
InheritedMember == "[Object.prototype member]"

\* mapping[classification]: own property, else prototype chain, else undefined
MappingLookup(classification) ==
  IF classification \in KnownLabels THEN mapping(classification)
  ELSE IF classification \in ObjectPrototypeKeys THEN InheritedMember
  ELSE Undefined

\* JavaScript truthiness of the values the model uses
Truthy(v) == v \notin {Undefined, Null, ""}

\* return mapping[classification] || null
mapClassificationToBadge(classification) ==
  IF Truthy(MappingLookup(classification)) THEN MappingLookup(classification)
  ELSE Null

BadgeIds ==
  {"paradigm-shift", "model-revolution", "normal-science", "model-crisis", "model-drift"}

(***************************************************************************)
(* Cache Store: the in-memory cache object and the persisted document      *)
(***************************************************************************)
\* an entry built without its metadata
CacheEntryWithoutMetadata(doi, metadata, t) ==
  [doi |-> doi, metadata |-> NoMeta, classification |-> NoClass, processedAt |-> t]

\* interface CacheEntry
CacheEntry(doi, metadata, t) ==
  [doi |-> doi, metadata |-> metadata, classification |-> NoClass, processedAt |-> t]

NoEntries == [d \in {} |-> CacheEntry("", NoMeta, 0)]

\* interface CacheData; hasEntries = FALSE is a document without an `entries` field
CacheData(hasEntries, entries, creditsUsed, lastUpdated) ==
  [hasEntries |-> hasEntries, entries |-> entries, creditsUsed |-> creditsUsed,
   lastUpdated |-> lastUpdated]

\* let cache = { entries: {}, creditsUsed: 0, lastUpdated: new Date()... }
InitialCache(t) == CacheData(TRUE, NoEntries, 0, t)

\* JSON.stringify(cache, null, 2): the document holds the fields that are
\* defined; an undefined `entries` is dropped
JSONstringify(c) ==
  [hasEntries |-> c.hasEntries,
   entries |-> IF c.hasEntries THEN c.entries ELSE NoEntries,
   creditsUsed |-> c.creditsUsed,
   lastUpdated |-> c.lastUpdated]

\* JSON.parse(data): a document without `entries` parses to an object whose
\* entries is undefined
JSONparse(doc) ==
  CacheData(doc.hasEntries, IF doc.hasEntries THEN doc.entries ELSE NoEntries,
            doc.creditsUsed, doc.lastUpdated)

\* the persisted file: missing, not parseable, or a JSON document
FileAbsent == [kind |-> "absent", doc |-> JSONstringify(InitialCache(0))]
FileCorrupt == [kind |-> "corrupt", doc |-> JSONstringify(InitialCache(0))]
FileJson(doc) == [kind |-> "json", doc |-> doc]

\* fs.writeFile outcome: the document replaces the file, or the write is
\* rejected and the file stays as it was
WriteFile(doc, ok) == IF ok THEN FileJson(doc) ELSE file

\* no write in flight
NoPending == JSONstringify(InitialCache(0))

\* cache.lastUpdated = new Date().toISOString()
SaveCacheStamp(c) == [c EXCEPT !.lastUpdated = now]

\* an assignment that keeps the value already stored under the key
PutIfAbsent(entries, doi, value) ==
  [d \in (DOMAIN entries) \cup {doi} |-> IF d \in DOMAIN entries THEN entries[d] ELSE value]

\* cache.entries[doi] = value
Put(entries, doi, value) ==
  [d \in (DOMAIN entries) \cup {doi} |-> IF d = doi THEN value ELSE entries[d]]

\* documents a previous run of the program can have left behind
StoreEmptyAtLimit == CacheData(TRUE, NoEntries, CREDIT_LIMIT, 0)
StoreClassified ==
  CacheData(TRUE,
            Put(NoEntries, "10.1038/a",
                [CacheEntry("10.1038/a", [title |-> "T", pdfUrl |-> "U"], 0)
                   EXCEPT !.classification = "Normal Science"]),
            1, 0)
StoreMetadataOnly ==
  CacheData(TRUE,
            Put(NoEntries, "10.1038/a",
                CacheEntry("10.1038/a", [title |-> "T", pdfUrl |-> "U"], 0)),
            0, 0)
\* a valid JSON document that lacks the `entries` field
StoreWithoutEntries == CacheData(FALSE, NoEntries, 0, 0)

InitFiles ==
  {FileAbsent, FileCorrupt,
   FileJson(JSONstringify(StoreEmptyAtLimit)),
   FileJson(JSONstringify(StoreClassified)),
   FileJson(JSONstringify(StoreMetadataOnly)),
   FileJson(JSONstringify(StoreWithoutEntries))}

(***************************************************************************)
(* Invocations: one record per flow, for the call it runs or ran last      *)
(***************************************************************************)
NoCall ==
  [op |-> "none", doi |-> "", status |-> "none", err |-> "", result |-> Null,
   metaReqs |-> 0, classReqs |-> 0, hit |-> FALSE, meta |-> NoMeta,
   label |-> NoClass, creditsAtStart |-> 0, creditsAtClassify |-> -1, turn |-> 0]

\* a call begins: nothing requested yet; `turn` flips at every call start
NewCall(p, op, doi) ==
  [NoCall EXCEPT !.op = op, !.doi = doi, !.status = "running",
                 !.creditsAtStart = cache.creditsUsed, !.turn = 1 - call[p].turn]

\* what is remembered of the call that ended before the current one began:
\* its DOI when it was a processDoi that returned, "" otherwise
Summary(cl) == IF cl.op = "processDoi" /\ cl.status = "returned" THEN cl.doi ELSE ""

\* the call returns v
Return(cl, v) == [cl EXCEPT !.status = "returned", !.result = v]

\* the promise of an exported function rejects with e
Reject(cl, e) == [cl EXCEPT !.status = "threw", !.err = e]

\* processDoi: catch (error) { logger.error(...); return null; }
ProcessDoiCatch(cl, e) == [Return(cl, Null) EXCEPT !.err = e]

\* credits counted by processDoi calls, per DOI passed, since the cache
\* object was last replaced by loadCache
NoCredits == [d \in Dois |-> 0]

\* the credit of call cl is counted: for its DOI when cl is a processDoi
Credit(cr, cl) ==
  IF cl.op = "processDoi" THEN [cr EXCEPT ![cl.doi] = @ + 1] ELSE cr

\* an exception leaves the code that runs for call cl
Throw(cl, e) == IF cl.op = "processDoi" THEN ProcessDoiCatch(cl, e) ELSE Reject(cl, e)

\* a metadata client that sends the request once more after a failure
FetchCrossrefMetadataRetries(cl) ==
  IF cl.metaReqs < 2
    THEN [pc |-> "awaitMetadata", call |-> [cl EXCEPT !.metaReqs = @ + 1]]
    ELSE [pc |-> "idle", call |-> Throw(cl, "MetadataFetchError")]

\* fetchCrossrefMetadata: catch (error) { logger.error(...); throw error; }
\* and the error reaches the catch of processDoi
FetchCrossrefMetadataCatch(cl) ==
  [pc |-> "idle", call |-> Throw(cl, "MetadataFetchError")]

(***************************************************************************)
(* Classification Client: the synchronous head of classifyPaper            *)
(***************************************************************************)
\* a limit check that lets one more call through
CreditLimitReachedOffByOne(c) == c.creditsUsed > CREDIT_LIMIT

\* if (cache.creditsUsed >= CREDIT_LIMIT)
CreditLimitReached(c) == c.creditsUsed >= CREDIT_LIMIT

\* a client that counts the credit whatever the response is
CountCreditAlways(c, answered) == [c EXCEPT !.creditsUsed = @ + 1]

\* if (!response.ok) throw ...; result = await response.json();
\* cache.creditsUsed++ : the credit is counted for an answer only
CountCredit(c, answered) ==
  IF answered THEN [c EXCEPT !.creditsUsed = @ + 1] ELSE c

\* classifyPaper up to `await fetch(KGX3_API_URL, ...)`
ClassifyPaperEnter(cl, c) ==
  LET cl1 == [cl EXCEPT !.creditsAtClassify = c.creditsUsed] IN
  IF CreditLimitReached(c)
    THEN [pc |-> "idle", call |-> Throw(cl1, "CreditLimitExceeded")]
  ELSE IF ~apiKey
    THEN [pc |-> "idle", call |-> Throw(cl1, "ConfigurationError")]
  ELSE [pc |-> "awaitClassify", call |-> [cl1 EXCEPT !.classReqs = @ + 1]]

(***************************************************************************)
(* Pipeline Orchestrator: the synchronous stretches of processDoi          *)
(***************************************************************************)
\* a cache check that reuses a classification only when its label is a known one
HasCachedClassificationKnownOnly(c, doi) ==
  /\ doi \in DOMAIN c.entries
  /\ c.entries[doi].classification \in KnownLabels

\* a cache check that never finds a classification
HasCachedClassificationNever(c, doi) == FALSE

\* if (cache.entries[doi]) { if (entry.classification) ...
HasCachedClassification(c, doi) ==
  /\ doi \in DOMAIN c.entries
  /\ c.entries[doi].classification # NoClass

\* a metadata check that never finds an entry
HasCachedMetadataNever(c, doi) == FALSE

\* if (cache.entries[doi]?.metadata)
HasCachedMetadata(c, doi) ==
  /\ doi \in DOMAIN c.entries
  /\ c.entries[doi].metadata # NoMeta

\* if (!metadata.title)
NoTitle(metadata) == ~Truthy(metadata.title)

\* a PDF check that never skips
NoPdfUrlNeverSkips(metadata) == FALSE

\* if (!metadata.pdfUrl)
NoPdfUrl(metadata) == ~Truthy(metadata.pdfUrl)

\* processDoi from the title check to the call of classifyPaper
AfterMetadata(cl, c) ==
  IF NoTitle(cl.meta) THEN [pc |-> "idle", call |-> Return(cl, Null)]
  ELSE IF NoPdfUrl(cl.meta) THEN [pc |-> "idle", call |-> Return(cl, Null)]
  ELSE ClassifyPaperEnter(cl, c)

\* a processDoi that sends no metadata request while another invocation's
\* request for the same DOI is in flight
ProcessDoiEnterSingleFlight(cl, c) ==
  IF ~c.hasEntries
    THEN [pc |-> "idle", call |-> Throw(cl, "TypeError")]
  ELSE IF HasCachedClassification(c, cl.doi)
    THEN [pc |-> "idle",
          call |-> Return([cl EXCEPT !.hit = TRUE],
                          mapClassificationToBadge(c.entries[cl.doi].classification))]
  ELSE IF HasCachedMetadata(c, cl.doi)
    THEN AfterMetadata([cl EXCEPT !.meta = c.entries[cl.doi].metadata], c)
  ELSE IF \E q \in Procs : pc[q] = "awaitMetadata" /\ call[q].doi = cl.doi
    THEN [pc |-> "idle", call |-> Return(cl, Null)]
  ELSE [pc |-> "awaitMetadata", call |-> [cl EXCEPT !.metaReqs = @ + 1]]

\* processDoi from its first line to its first suspension or return
ProcessDoiEnter(cl, c) ==
  IF ~c.hasEntries
    THEN [pc |-> "idle", call |-> Throw(cl, "TypeError")]
  ELSE IF HasCachedClassification(c, cl.doi)
    THEN [pc |-> "idle",
          call |-> Return([cl EXCEPT !.hit = TRUE],
                          mapClassificationToBadge(c.entries[cl.doi].classification))]
  ELSE IF HasCachedMetadata(c, cl.doi)
    THEN AfterMetadata([cl EXCEPT !.meta = c.entries[cl.doi].metadata], c)
  ELSE [pc |-> "awaitMetadata", call |-> [cl EXCEPT !.metaReqs = @ + 1]]

(***************************************************************************)
(* Actions                                                                 *)
(***************************************************************************)
\* pc, call and pend of flow p after a synchronous stretch that saves nothing
Continue(p, r) ==
  /\ pc' = [pc EXCEPT ![p] = r.pc]
  /\ call' = [call EXCEPT ![p] = r.call]

\* saveCache() up to `await fs.writeFile(...)`: the cache is stamped and its
\* text is built now; the write itself completes in a later step
SaveCacheBegin(p, c, next, cl) ==
  /\ cache' = SaveCacheStamp(c)
  /\ pend' = [pend EXCEPT ![p] = JSONstringify(SaveCacheStamp(c))]
  /\ pc' = [pc EXCEPT ![p] = next]
  /\ call' = [call EXCEPT ![p] = cl]

\* a caller invokes processDoi(doi)
ProcessDoiStart(p, doi) ==
  /\ pc[p] = "idle"
  /\ Continue(p, ProcessDoiEnter(NewCall(p, "processDoi", doi), cache))
  /\ prev' = Summary(call[p])
  /\ UNCHANGED <<cache, file, apiKey, now, pend, pure, credited>>

\* fetchCrossrefMetadata throws: non-success status, no work record, or a
\* transport error; processDoi's catch turns it into null
MetadataFails(p) ==
  /\ pc[p] = "awaitMetadata"
  /\ Continue(p, FetchCrossrefMetadataCatch(call[p]))
  /\ UNCHANGED <<cache, file, apiKey, now, pend, prev, pure, credited>>

\* fetchCrossrefMetadata returns metadata; processDoi stores the entry and
\* calls saveCache
MetadataArrives(p, metadata) ==
  /\ pc[p] = "awaitMetadata"
  /\ LET cl == [call[p] EXCEPT !.meta = metadata] IN
     IF ~cache.hasEntries
       THEN /\ Continue(p, [pc |-> "idle", call |-> Throw(cl, "TypeError")])
            /\ UNCHANGED <<cache, pend>>
       ELSE SaveCacheBegin(p,
              [cache EXCEPT !.entries = Put(@, cl.doi, CacheEntry(cl.doi, metadata, now))],
              "awaitSaveMeta", cl)
  /\ UNCHANGED <<file, apiKey, now, prev, pure, credited>>

\* the write of the new entry ends; processDoi goes on to the title and PDF
\* checks and into classifyPaper
SaveMetaDone(p, ok) ==
  /\ pc[p] = "awaitSaveMeta"
  /\ file' = WriteFile(pend[p], ok)
  /\ Continue(p, AfterMetadata(call[p], cache))
  /\ pend' = [pend EXCEPT ![p] = NoPending]
  /\ UNCHANGED <<cache, apiKey, now, prev, pure, credited>>

\* a caller invokes classifyPaper(title, pdfUrl) directly
ClassifyPaperStart(p, title, pdfUrl) ==
  /\ pc[p] = "idle"
  /\ Continue(p, ClassifyPaperEnter(NewCall(p, "classifyPaper", ""), cache))
  /\ prev' = Summary(call[p])
  /\ UNCHANGED <<cache, file, apiKey, now, pend, pure, credited>>

\* the classification request fails: non-success status, transport error or
\* an unreadable body; classifyPaper logs and rethrows
ClassifyFails(p) ==
  /\ pc[p] = "awaitClassify"
  /\ Continue(p, [pc |-> "idle", call |-> Throw(call[p], "ClassificationFetchError")])
  /\ cache' = CountCredit(cache, FALSE)
  /\ UNCHANGED <<file, apiKey, now, pend, prev, pure, credited>>

\* the service answers with a label: cache.creditsUsed++; await saveCache()
ClassifyArrives(p, label) ==
  /\ pc[p] = "awaitClassify"
  /\ SaveCacheBegin(p, CountCredit(cache, TRUE), "awaitSaveCredit",
                    [call[p] EXCEPT !.label = label])
  /\ credited' = Credit(credited, call[p])
  /\ UNCHANGED <<file, apiKey, now, prev, pure>>

\* the write of the credit ends and classifyPaper returns; processDoi
\* attaches the classification to the entry and calls saveCache
SaveCreditDone(p, ok) ==
  /\ pc[p] = "awaitSaveCredit"
  /\ file' = WriteFile(pend[p], ok)
  /\ LET cl == call[p] IN
     IF cl.op = "classifyPaper"
       THEN /\ Continue(p, [pc |-> "idle", call |-> Return(cl, cl.label)])
            /\ pend' = [pend EXCEPT ![p] = NoPending]
            /\ UNCHANGED cache
     ELSE IF ~cache.hasEntries \/ cl.doi \notin DOMAIN cache.entries
       THEN /\ Continue(p, [pc |-> "idle", call |-> Throw(cl, "TypeError")])
            /\ pend' = [pend EXCEPT ![p] = NoPending]
            /\ UNCHANGED cache
     ELSE SaveCacheBegin(p,
            [cache EXCEPT !.entries[cl.doi].classification = cl.label],
            "awaitSaveClass", cl)
  /\ UNCHANGED <<apiKey, now, prev, pure, credited>>

\* the write of the classification ends; processDoi returns the badge
SaveClassDone(p, ok) ==
  /\ pc[p] = "awaitSaveClass"
  /\ file' = WriteFile(pend[p], ok)
  /\ Continue(p, [pc |-> "idle",
                  call |-> Return(call[p], mapClassificationToBadge(call[p].label))])
  /\ pend' = [pend EXCEPT ![p] = NoPending]
  /\ UNCHANGED <<cache, apiKey, now, prev, pure, credited>>

\* a caller invokes loadCache(): await fs.readFile(CACHE_FILE, 'utf8')
LoadCacheStart(p) ==
  /\ pc[p] = "idle"
  /\ Continue(p, [pc |-> "awaitRead", call |-> NewCall(p, "loadCache", "")])
  /\ prev' = Summary(call[p])
  /\ UNCHANGED <<cache, file, apiKey, now, pend, pure, credited>>

\* readFile rejects with ENOENT: 'No cache file found'; await saveCache()
LoadCacheMissing(p) ==
  /\ pc[p] = "awaitRead"
  /\ file.kind = "absent"
  /\ SaveCacheBegin(p, cache, "awaitSaveLoad", [call[p] EXCEPT !.err = "ENOENT"])
  /\ UNCHANGED <<file, apiKey, now, prev, pure, credited>>

\* readFile rejects with another error, or JSON.parse throws: logged, swallowed
LoadCacheFails(p, readable) ==
  /\ pc[p] = "awaitRead"
  /\ file.kind # "absent"
  /\ file.kind = "corrupt" \/ ~readable
  /\ Continue(p, [pc |-> "idle",
                  call |-> [Return(call[p], Null) EXCEPT
                              !.err = IF readable THEN "SyntaxError" ELSE "ReadError"]])
  /\ UNCHANGED <<cache, file, apiKey, now, pend, prev, pure, credited>>

\* cache = JSON.parse(data); the log line then reads cache.entries, which
\* throws a TypeError (swallowed) when the document has no entries
LoadCacheParsed(p) ==
  /\ pc[p] = "awaitRead"
  /\ file.kind = "json"
  /\ cache' = JSONparse(file.doc)
  /\ Continue(p, [pc |-> "idle",
                  call |-> [Return(call[p], Null) EXCEPT
                              !.err = IF file.doc.hasEntries THEN "" ELSE "TypeError"]])
  /\ credited' = NoCredits
  /\ UNCHANGED <<file, apiKey, now, pend, prev, pure>>

\* the write that loadCache started ends
SaveLoadDone(p, ok) ==
  /\ pc[p] = "awaitSaveLoad"
  /\ file' = WriteFile(pend[p], ok)
  /\ Continue(p, [pc |-> "idle", call |-> Return(call[p], Null)])
  /\ pend' = [pend EXCEPT ![p] = NoPending]
  /\ UNCHANGED <<cache, apiKey, now, prev, pure, credited>>

\* time passes between two readings of the clock
Tick ==
  /\ now < MaxTime
  /\ now' = now + 1
  /\ UNCHANGED <<cache, file, apiKey, pc, call, pend, prev, pure, credited>>

NoPrev == Summary(NoCall)
PureIdle == [fn |-> "none", text |-> <<>>, label |-> "", found |-> FALSE, out |-> <<>>, badge |-> Null]

\* the module has been loaded: the cache is the initial object, the file is
\* whatever an earlier run left, no call is in flight
Init ==
  /\ now = 0
  /\ cache = InitialCache(0)
  /\ file \in InitFiles
  /\ apiKey \in BOOLEAN
  /\ pc = [p \in Procs |-> "idle"]
  /\ call = [p \in Procs |-> NoCall]
  /\ pend = [p \in Procs |-> NoPending]
  /\ prev = NoPrev
  /\ pure = PureIdle
  /\ credited = NoCredits

\* the steps of flow p
Step(p) ==
  \/ \E doi \in Dois : ProcessDoiStart(p, doi)
  \/ MetadataFails(p)
  \/ \E metadata \in Registry(call[p].doi) : MetadataArrives(p, metadata)
  \/ \E ok \in BOOLEAN : SaveMetaDone(p, ok)
  \/ \E title \in Titles, pdfUrl \in PdfUrls : ClassifyPaperStart(p, title, pdfUrl)
  \/ ClassifyFails(p)
  \/ \E label \in ServiceLabels : ClassifyArrives(p, label)
  \/ \E ok \in BOOLEAN : SaveCreditDone(p, ok)
  \/ \E ok \in BOOLEAN : SaveClassDone(p, ok)
  \/ LoadCacheStart(p)
  \/ LoadCacheMissing(p)
  \/ \E readable \in BOOLEAN : LoadCacheFails(p, readable)
  \/ LoadCacheParsed(p)
  \/ \E ok \in BOOLEAN : SaveLoadDone(p, ok)

\* sequential use: one flow, so one invocation in flight at a time
Next == Step(SeqProc) \/ Tick

Spec == Init /\ [][Next]_vars

\* a store that an earlier run left with one credit to spend
StoreOneCreditLeft == CacheData(TRUE, NoEntries, CREDIT_LIMIT - 1, 0)

\* interleaved use starts after loadCache has run: the cache is empty (no
\* file yet) or is the store of an earlier run, and the API key is configured
InitConc ==
  /\ now = 0
  /\ \/ cache = InitialCache(0) /\ file = FileAbsent
     \/ /\ cache = JSONparse(JSONstringify(StoreOneCreditLeft))
        /\ file = FileJson(JSONstringify(StoreOneCreditLeft))
  /\ apiKey = TRUE
  /\ pc = [p \in Procs |-> "idle"]
  /\ call = [p \in Procs |-> NoCall]
  /\ pend = [p \in Procs |-> NoPending]
  /\ prev = NoPrev
  /\ pure = PureIdle
  /\ credited = NoCredits

\* the steps of flow p in interleaved use: each flow is one invocation of
\* processDoi or classifyPaper, and every write to the file succeeds
StepConc(p) ==
  \/ \E doi \in Dois : call[p] = NoCall /\ ProcessDoiStart(p, doi)
  \/ MetadataFails(p)
  \/ \E metadata \in Registry(call[p].doi) : MetadataArrives(p, metadata)
  \/ SaveMetaDone(p, TRUE)
  \/ \E title \in Titles, pdfUrl \in PdfUrls :
       call[p] = NoCall /\ ClassifyPaperStart(p, title, pdfUrl)
  \/ ClassifyFails(p)
  \/ \E label \in ServiceLabels : ClassifyArrives(p, label)
  \/ SaveCreditDone(p, TRUE)
  \/ SaveClassDone(p, TRUE)

\* interleaved use: every invocation may start, or go on, while the others
\* are suspended at an await
NextConc == (\E p \in Procs : StepConc(p)) \/ Tick

SpecConc == InitConc /\ [][NextConc]_vars

(***************************************************************************)
(* DOI Extractor                                                           *)
(*                                                                         *)
(* A text is a sequence of tokens.  Each token is a run of characters that *)
(* the two regular expressions can only match as a whole: with this        *)
(* alphabet "doi.org", "dx.", "http" and "10." occur at token starts only. *)
(***************************************************************************)
TokScheme == "https://"
TokDx == "dx."
TokHost == "doi.org"
TokHostSlash == "doi.org/"
TokPrefix == "10.1038/"
TokSpace == " "
Tokens == {TokScheme, TokDx, TokHost, TokHostSlash, TokPrefix, "A", "B", TokSpace}

Texts == UNION {[1..n -> Tokens] : n \in 0..MaxTextLen}

\* the class [-._;()\/:A-Z0-9] under the i flag: every token but the space
\* is made of characters of the class
IsSuffixTok(tok) == tok # TokSpace

HasTok(text, i, toks) == i <= Len(text) /\ text[i] \in toks

\* (?:https?:\/\/)?(?:dx\.)?doi\.org\/?(10\.\d{4,9}\/[...]+) tried at token i:
\* the index where group 1 starts, or 0 when the pattern does not match there
DoiRegexAt(text, i) ==
  LET j1 == IF HasTok(text, i, {TokScheme}) THEN i + 1 ELSE i
      j2 == IF HasTok(text, j1, {TokDx}) THEN j1 + 1 ELSE j1
  IN IF /\ HasTok(text, j2, {TokHost, TokHostSlash})
        /\ HasTok(text, j2 + 1, {TokPrefix})
        /\ HasTok(text, j2 + 2, Tokens \ {TokSpace})
       THEN j2 + 1 ELSE 0

\* (10\.\d{4,9}\/[...]+) tried at token i
DirectDoiRegexAt(text, i) ==
  IF HasTok(text, i, {TokPrefix}) /\ HasTok(text, i + 1, Tokens \ {TokSpace})
    THEN i ELSE 0

RegexAt(url, text, i) == IF url THEN DoiRegexAt(text, i) ELSE DirectDoiRegexAt(text, i)

\* regex.exec(text) from lastIndex 0: the leftmost position where the
\* pattern matches; the start of group 1 there, or 0 for no match
RECURSIVE Exec(_, _, _)
Exec(url, text, i) ==
  IF i > Len(text) THEN 0
  ELSE IF RegexAt(url, text, i) # 0 THEN RegexAt(url, text, i)
  ELSE Exec(url, text, i + 1)

\* the greedy [...]+ : the last token of the run of class characters from k
RECURSIVE GreedyEnd(_, _)
GreedyEnd(text, k) ==
  IF k < Len(text) /\ IsSuffixTok(text[k + 1]) THEN GreedyEnd(text, k + 1) ELSE k

\* match[1]
Group1(text, g) == SubSeq(text, g, GreedyEnd(text, g))

\* String.prototype.toLowerCase on a token
TokToLowerCase(tok) == IF tok = "A" THEN "a" ELSE IF tok = "B" THEN "b" ELSE tok

ToLowerCase(toks) == [k \in 1..Len(toks) |-> TokToLowerCase(toks[k])]

Found(doi) == [found |-> TRUE, doi |-> doi]
NotFound == [found |-> FALSE, doi |-> <<>>]

\* an extractor that tries the bare pattern before the URL pattern
extractDoiDirectFirst(text) ==
  IF Exec(FALSE, text, 1) # 0 THEN Found(ToLowerCase(Group1(text, Exec(FALSE, text, 1))))
  ELSE IF Exec(TRUE, text, 1) # 0 THEN Found(ToLowerCase(Group1(text, Exec(TRUE, text, 1))))
  ELSE NotFound

\* extractDoi(text)
extractDoi(text) ==
  IF Exec(TRUE, text, 1) # 0 THEN Found(ToLowerCase(Group1(text, Exec(TRUE, text, 1))))
  ELSE IF Exec(FALSE, text, 1) # 0 THEN Found(ToLowerCase(Group1(text, Exec(FALSE, text, 1))))
  ELSE NotFound

(***************************************************************************)
(* The pure functions applied to drawn inputs                              *)
(***************************************************************************)
\* labels handed to mapClassificationToBadge
LabelInputs ==
  KnownLabels \cup ObjectPrototypeKeys \cup
  {"", "paradigm shift", "PARADIGM SHIFT", "Normal science", "model drift",
   "Unknown Classification", "Not A Label", Undefined}

PureInputs ==
  {[PureIdle EXCEPT !.fn = "text", !.text = t] : t \in Texts} \cup
  {[PureIdle EXCEPT !.fn = "label", !.label = l] : l \in LabelInputs}

InitPure ==
  /\ now = 0
  /\ cache = InitialCache(0)
  /\ file = FileAbsent
  /\ apiKey = TRUE
  /\ pc = [p \in Procs |-> "idle"]
  /\ call = [p \in Procs |-> NoCall]
  /\ pend = [p \in Procs |-> NoPending]
  /\ prev = NoPrev
  /\ pure \in PureInputs
  /\ credited = NoCredits

\* a caller invokes extractDoi(text)
ExtractDoiCall ==
  /\ pure.fn = "text"
  /\ pure' = [pure EXCEPT !.fn = "extractDoi",
                          !.found = extractDoi(pure.text).found,
                          !.out = extractDoi(pure.text).doi]
  /\ UNCHANGED <<cache, file, apiKey, now, pc, call, pend, prev, credited>>

\* a caller invokes mapClassificationToBadge(label)
MapClassificationToBadgeCall ==
  /\ pure.fn = "label"
  /\ pure' = [pure EXCEPT !.fn = "mapClassificationToBadge",
                          !.badge = mapClassificationToBadge(pure.label)]
  /\ UNCHANGED <<cache, file, apiKey, now, pc, call, pend, prev, credited>>

NextPure == ExtractDoiCall \/ MapClassificationToBadgeCall

SpecPure == InitPure /\ [][NextPure]_vars

(***************************************************************************)
(* Properties                                                              *)
(***************************************************************************)
\* flow p has just begun a call of processDoi(d) in this step
StartsProcessDoi(p, d) ==
  /\ call'[p].turn # call[p].turn
  /\ call'[p].op = "processDoi"
  /\ call'[p].doi = d

\* the cache holds an entry for d that carries a classification
Warm(c, d) ==
  /\ c.hasEntries
  /\ d \in DOMAIN c.entries
  /\ c.entries[d].classification # NoClass

\* the call of flow p has ended
Ended(p) == call[p].status \in {"returned", "threw"}

\* C1: under sequential processDoi / classifyPaper (and loadCache) calls,
\* starting from stores whose creditsUsed is at most CREDIT_LIMIT, the
\* in-memory creditsUsed never exceeds CREDIT_LIMIT.
C1_CreditsWithinLimit == cache.creditsUsed <= CREDIT_LIMIT

\* a classification has just been paid for with the last credit
C1_Witness ==
  \E p \in Procs :
    /\ call[p].op \in {"processDoi", "classifyPaper"}
    /\ call[p].status = "returned"
    /\ call[p].classReqs = 1
    /\ call[p].creditsAtClassify = CREDIT_LIMIT - 1
    /\ cache.creditsUsed = CREDIT_LIMIT

\* C2: a classifyPaper call (direct or through processDoi) entered while
\* creditsUsed has reached the limit fails with the credit-limit error, has
\* issued no classification request, and leaves creditsUsed as it was.
C2_BudgetEnforcement ==
  \A p \in Procs :
    call[p].creditsAtClassify >= CREDIT_LIMIT =>
      /\ pc[p] = "idle"
      /\ call[p].classReqs = 0
      /\ call[p].err = "CreditLimitExceeded"
      /\ cache.creditsUsed = call[p].creditsAtClassify
      /\ call[p].op = "classifyPaper" => call[p].status = "threw"
      /\ call[p].op = "processDoi" => call[p].status = "returned" /\ call[p].result = Null

\* a processDoi reached classifyPaper with the budget used up
C2_Witness ==
  \E p \in Procs :
    /\ call[p].op = "processDoi"
    /\ call[p].creditsAtClassify = CREDIT_LIMIT
    /\ call[p].err = "CreditLimitExceeded"
    /\ call[p].meta.pdfUrl = "U"

\* C3: every processDoi call ends by returning a badge identifier or null,
\* never by an exception.
C3_ReturnsBadgeOrNull ==
  \A p \in Procs :
    (call[p].op = "processDoi" /\ Ended(p)) =>
      /\ call[p].status = "returned"
      /\ call[p].result \in BadgeIds \cup {Null}

\* C3, the part about exceptions alone: no processDoi call ends by throwing
C3_NeverThrows ==
  \A p \in Procs : call[p].op = "processDoi" => call[p].status # "threw"

\* C4: a processDoi(d) begun while the cache holds a classified entry for d
\* returns at once the badge mapped from the cached label, requests neither
\* metadata nor classification, and leaves the cache and the file unchanged.
C4_MemoizedPath ==
  [][\A p \in Procs, d \in Dois :
       (StartsProcessDoi(p, d) /\ Warm(cache, d)) =>
         /\ pc'[p] = "idle"
         /\ call'[p].status = "returned"
         /\ call'[p].result = mapClassificationToBadge(cache.entries[d].classification)
         /\ cache.entries[d].classification = "Normal Science" =>
              call'[p].result = "normal-science"
         /\ call'[p].metaReqs = 0
         /\ call'[p].classReqs = 0
         /\ cache' = cache
         /\ file' = file]_vars

\* a processDoi answered "normal-science" from the cache without any request
C4_Witness ==
  \E p \in Procs :
    /\ call[p].op = "processDoi"
    /\ call[p].status = "returned"
    /\ Warm(cache, call[p].doi)
    /\ cache.entries[call[p].doi].classification = "Normal Science"
    /\ call[p].result = "normal-science"
    /\ call[p].metaReqs = 0
    /\ call[p].classReqs = 0

\* C5: when processDoi(d) follows a processDoi(d) that returned and left the
\* cache with a classified entry for d, the second call issues no metadata
\* and no classification request and returns what the first returned.
C5_Idempotence ==
  [][\A p \in Procs, d \in Dois :
       (/\ StartsProcessDoi(p, d)
        /\ call[p].op = "processDoi" /\ call[p].doi = d /\ call[p].status = "returned"
        /\ Warm(cache, d)) =>
         /\ call'[p].status = "returned"
         /\ call'[p].metaReqs = 0
         /\ call'[p].classReqs = 0
         /\ call'[p].result = call[p].result]_vars

\* a second processDoi of the same DOI has returned from a warm cache
C5_Witness ==
  \E p \in Procs :
    /\ call[p].op = "processDoi"
    /\ call[p].status = "returned"
    /\ prev = call[p].doi
    /\ Warm(cache, call[p].doi)
    /\ call[p].metaReqs = 0
    /\ call[p].classReqs = 0
    /\ call[p].result # Null

\* the metadata that processDoi resolved for its DOI (fetched, or read from
\* the entry) has no PDF URL
ResolvedWithoutPdf(p) ==
  \/ call[p].meta # NoMeta /\ call[p].meta.pdfUrl \in {Undefined, ""}
  \/ /\ call[p].hit
     /\ Warm(cache, call[p].doi)
     /\ cache.entries[call[p].doi].metadata.pdfUrl \in {Undefined, ""}

\* C6: a processDoi whose metadata (fetched or cached) has no PDF URL issues
\* no classification request, leaves creditsUsed as it was when the call
\* began, and returns null.
C6_CreditConservation ==
  \A p \in Procs :
    (call[p].op = "processDoi" /\ ResolvedWithoutPdf(p)) =>
      /\ call[p].classReqs = 0
      /\ pc[p] # "awaitClassify"
      /\ cache.creditsUsed = call[p].creditsAtStart
      /\ Ended(p) => call[p].status = "returned" /\ call[p].result = Null

\* a processDoi fetched metadata with a title and no PDF URL and returned
C6_Witness ==
  \E p \in Procs :
    /\ call[p].op = "processDoi"
    /\ call[p].status = "returned"
    /\ call[p].metaReqs = 1
    /\ call[p].meta = [title |-> "T", pdfUrl |-> Undefined]
    /\ call[p].result = Null
    /\ apiKey
    /\ cache.creditsUsed < CREDIT_LIMIT

\* classifyPaper has returned a classification to its caller in flow p
ClassifyPaperReturned(p) ==
  \/ call[p].op = "classifyPaper" /\ call[p].status = "returned"
  \/ call[p].op = "processDoi" /\ pc[p] = "awaitSaveClass"

\* C7: when classifyPaper returns after a successful answer of the service,
\* the cache file holds the incremented creditsUsed.
C7_CreditPersistedBeforeReturn ==
  \A p \in Procs :
    ClassifyPaperReturned(p) =>
      /\ file.kind = "json"
      /\ file.doc.creditsUsed = cache.creditsUsed

\* the five fixed badge identifiers
ExpectedBadge(label) ==
  CASE label = "Paradigm Shift" -> "paradigm-shift"
    [] label = "Model Revolution" -> "model-revolution"
    [] label = "Normal Science" -> "normal-science"
    [] label = "Model Crisis" -> "model-crisis"
    [] label = "Model Drift" -> "model-drift"
    [] OTHER -> Null

\* C8: mapClassificationToBadge returns the fixed badge of each of the five
\* known labels and null for every other string.
C8_BadgeMapping ==
  pure.fn = "mapClassificationToBadge" => pure.badge = ExpectedBadge(pure.label)

\* the text holds, at token i, doi.org followed (with the slash, or with or
\* without it) by 10.NNNN/ and at least one suffix character
UrlDoiAt(text, i, hosts) ==
  /\ i + 2 <= Len(text)
  /\ text[i] \in hosts
  /\ text[i + 1] = TokPrefix
  /\ text[i + 2] # TokSpace

\* the text holds a bare DOI at token i
BareDoiAt(text, i) ==
  /\ i + 1 <= Len(text)
  /\ text[i] = TokPrefix
  /\ text[i + 1] # TokSpace

\* the DOI that starts at token g: up to the next space, lower-cased
DoiFrom(text, g) ==
  LET e == CHOOSE k \in g..Len(text) :
             /\ \A j \in g..k : text[j] # TokSpace
             /\ k = Len(text) \/ text[k + 1] = TokSpace
  IN [j \in 1..(e - g + 1) |->
        IF text[g + j - 1] = "A" THEN "a"
        ELSE IF text[g + j - 1] = "B" THEN "b" ELSE text[g + j - 1]]

\* the first URL-style DOI of the text, for the given forms of the host
FirstUrl(text, hosts) ==
  CHOOSE i \in 1..Len(text) :
    /\ UrlDoiAt(text, i, hosts)
    /\ \A j \in 1..(i - 1) : ~UrlDoiAt(text, j, hosts)

FirstBare(text) ==
  CHOOSE i \in 1..Len(text) :
    BareDoiAt(text, i) /\ \A j \in 1..(i - 1) : ~BareDoiAt(text, j)

\* when the text holds a URL-style DOI (for the given forms of the host),
\* extractDoi gives the DOI of the first one
UrlFirst(hosts) ==
  (/\ pure.fn = "extractDoi"
   /\ \E i \in 1..Len(pure.text) : UrlDoiAt(pure.text, i, hosts)) =>
    /\ pure.found
    /\ pure.out = DoiFrom(pure.text, FirstUrl(pure.text, hosts) + 1)

\* when the text holds no URL-style DOI but a bare one, extractDoi gives the
\* first bare DOI
BareOtherwise(hosts) ==
  (/\ pure.fn = "extractDoi"
   /\ \A i \in 1..Len(pure.text) : ~UrlDoiAt(pure.text, i, hosts)
   /\ \E i \in 1..Len(pure.text) : BareDoiAt(pure.text, i)) =>
    /\ pure.found
    /\ pure.out = DoiFrom(pure.text, FirstBare(pure.text))

\* C9 as stated: for every text with a resolver URL doi.org/10.NNNN/suffix,
\* extractDoi returns the DOI of the first such URL, lower-cased, whatever
\* bare DOI comes earlier.
C9_UrlWithSlashFirst == UrlFirst({TokHostSlash})

\* C9 amended: the same with the slash after doi.org optional, so that
\* doi.org10.NNNN/suffix counts as a URL-style DOI too; the bare pattern
\* decides exactly when the text holds no such URL-style DOI.
C9_UrlFirst ==
  /\ UrlFirst({TokHost, TokHostSlash})
  /\ BareOtherwise({TokHost, TokHostSlash})

\* extractDoi returned the DOI of a URL that follows a bare DOI written in
\* upper case
C9_Witness ==
  /\ pure.fn = "extractDoi"
  /\ \E i, j \in 1..Len(pure.text) :
       /\ i < j
       /\ BareDoiAt(pure.text, i) /\ pure.text[i + 1] = "A"
       /\ UrlDoiAt(pure.text, j, {TokHostSlash})
       /\ \A k \in 1..(j - 1) : ~UrlDoiAt(pure.text, k, {TokHost, TokHostSlash})
  /\ pure.found
  /\ pure.out = <<TokPrefix, "b">>

\* C10: when loadCache has run with no cache file, the store is empty and
\* the file exists afterwards and holds that empty store.
C10_FirstRunPersistsEmptyStore ==
  \A p \in Procs :
    (call[p].op = "loadCache" /\ call[p].err = "ENOENT" /\ call[p].status = "returned") =>
      /\ cache.hasEntries /\ DOMAIN cache.entries = {} /\ cache.creditsUsed = 0
      /\ file.kind = "json"
      /\ file.doc.hasEntries /\ DOMAIN file.doc.entries = {} /\ file.doc.creditsUsed = 0

\* the loadCache of flow p ends in this step with a failure other than a
\* missing file: the read failed, the text did not parse, or the parsed
\* document lacks the entries
LoadCacheFailed(p) ==
  /\ pc[p] = "awaitRead"
  /\ pc'[p] = "idle"
  /\ call'[p].err \in {"ReadError", "SyntaxError", "TypeError"}

\* C11: when loadCache fails for a reason other than a missing file, it
\* returns without an exception and the in-memory cache (entries and
\* creditsUsed) is what it was before the call.
C11_FailedLoadKeepsCache ==
  [][\A p \in Procs :
       LoadCacheFailed(p) =>
         /\ call'[p].status = "returned"
         /\ cache'.hasEntries = cache.hasEntries
         /\ cache'.entries = cache.entries
         /\ cache'.creditsUsed = cache.creditsUsed]_vars

\* this step belongs to a processDoi call of flow p
ProcessDoiStep(p) ==
  /\ call'[p].op = "processDoi"
  /\ <<pc'[p], call'[p]>> # <<pc[p], call[p]>>

\* every entry that has a classification has metadata
ClassifiedHaveMetadata(c) ==
  \A d \in DOMAIN c.entries :
    c.entries[d].classification # NoClass => c.entries[d].metadata # NoMeta

\* C12: under sequential calls every cache entry with a classification has
\* metadata, and a step of processDoi that attaches a classification attaches
\* it to an entry that was there before the step, with its metadata, and
\* keeps that metadata.
C12_ClassificationFollowsMetadata ==
  /\ []ClassifiedHaveMetadata(cache)
  /\ [][\A p \in Procs :
          ProcessDoiStep(p) =>
            \A d \in DOMAIN cache'.entries :
              (cache'.entries[d].classification # NoClass /\ ~Warm(cache, d)) =>
                /\ d \in DOMAIN cache.entries
                /\ cache.entries[d].metadata # NoMeta
                /\ cache'.entries[d].metadata = cache.entries[d].metadata]_vars

\* a processDoi fetched the metadata, stored the entry, classified the paper
\* and attached the label to that entry
C12_Witness ==
  \E p \in Procs :
    /\ call[p].op = "processDoi"
    /\ call[p].status = "returned"
    /\ call[p].metaReqs = 1
    /\ call[p].classReqs = 1
    /\ Warm(cache, call[p].doi)
    /\ cache.entries[call[p].doi].classification = call[p].label
    /\ cache.entries[call[p].doi].metadata = call[p].meta
    /\ call[p].meta.title = "T"

ClassifyErrors ==
  {"CreditLimitExceeded", "ConfigurationError", "ClassificationFetchError"}

\* the classification attempt of flow p fails in this step
ClassifyAttemptFails(p) ==
  /\ call'[p].err \in ClassifyErrors
  /\ <<pc'[p], call'[p]>> # <<pc[p], call[p]>>

\* C14: a failed classification attempt (credit limit, missing API key,
\* failed request) changes neither creditsUsed nor any cache entry; after it
\* creditsUsed is what it was when classifyPaper was entered, and after a
\* failed processDoi the DOI's entry is still there with its metadata and
\* without a classification.
C14_FailedClassificationKeepsState ==
  /\ [](\A p \in Procs :
          (call[p].err \in ClassifyErrors /\ pc[p] = "idle") =>
            /\ cache.creditsUsed = call[p].creditsAtClassify
            /\ call[p].op = "processDoi" =>
                 /\ call[p].doi \in DOMAIN cache.entries
                 /\ cache.entries[call[p].doi].metadata = call[p].meta
                 /\ cache.entries[call[p].doi].classification = NoClass)
  /\ [][\A p \in Procs :
          ClassifyAttemptFails(p) =>
            /\ cache'.creditsUsed = cache.creditsUsed
            /\ cache'.entries = cache.entries
            /\ cache'.hasEntries = cache.hasEntries]_vars

\* a processDoi stored the metadata, sent one classification request, and the
\* request failed
C14_Witness ==
  \E p \in Procs :
    /\ call[p].op = "processDoi"
    /\ call[p].status = "returned"
    /\ call[p].err = "ClassificationFetchError"
    /\ call[p].metaReqs = 1
    /\ call[p].classReqs = 1
    /\ call[p].doi \in DOMAIN cache.entries
    /\ cache.entries[call[p].doi].classification = NoClass

\* C15: a processDoi call sends at most one metadata request and at most one
\* classification request; once a stage has failed the call is over (so it
\* sends nothing more) and has returned null; a failed metadata stage is not
\* followed by a classification request, and a failed check of classifyPaper
\* sends none.
C15_NoRetry ==
  \A p \in Procs :
    call[p].op = "processDoi" =>
      /\ call[p].metaReqs <= 1
      /\ call[p].classReqs <= 1
      /\ call[p].err # "" =>
           /\ pc[p] = "idle"
           /\ call[p].status = "returned"
           /\ call[p].result = Null
      /\ call[p].err = "MetadataFetchError" =>
           call[p].metaReqs = 1 /\ call[p].classReqs = 0
      /\ call[p].err \in {"CreditLimitExceeded", "ConfigurationError"} =>
           call[p].classReqs = 0
      /\ call[p].err = "ClassificationFetchError" => call[p].classReqs = 1

\* a processDoi has returned null after its one metadata request failed
C15_Witness ==
  \E p \in Procs :
    /\ call[p].op = "processDoi"
    /\ call[p].status = "returned"
    /\ call[p].err = "MetadataFetchError"
    /\ call[p].metaReqs = 1
    /\ call[p].result = Null

\* C16: once the cache holds an entry for a DOI, a step of a sequential
\* processDoi call never sends a metadata request for that DOI, never
\* removes the entry and never changes its doi, metadata or processedAt; the
\* only change is a classification added to an entry that had none, by the
\* call for that DOI.
C16_EntryImmutable ==
  [][\A p \in Procs :
       ProcessDoiStep(p) =>
         /\ (pc'[p] = "awaitMetadata" /\ pc[p] # "awaitMetadata") =>
              call'[p].doi \notin DOMAIN cache.entries
         /\ \A d \in DOMAIN cache.entries :
              /\ d \in DOMAIN cache'.entries
              /\ cache'.entries[d].doi = cache.entries[d].doi
              /\ cache'.entries[d].metadata = cache.entries[d].metadata
              /\ cache'.entries[d].processedAt = cache.entries[d].processedAt
              /\ cache'.entries[d].classification # cache.entries[d].classification =>
                   /\ cache.entries[d].classification = NoClass
                   /\ d = call'[p].doi]_vars

\* a later processDoi found the entry of an earlier time, sent no metadata
\* request, and added the classification; processedAt is still the earlier
\* time
C16_Witness ==
  \E p \in Procs :
    /\ call[p].op = "processDoi"
    /\ call[p].status = "returned"
    /\ ~call[p].hit
    /\ call[p].metaReqs = 0
    /\ call[p].classReqs = 1
    /\ Warm(cache, call[p].doi)
    /\ cache.entries[call[p].doi].metadata = call[p].meta
    /\ cache.entries[call[p].doi].processedAt < now

\* toLowerCase() on the DOI strings passed to processDoi
DoiToLowerCase(d) == IF d = "10.1038/B" THEN "10.1038/b" ELSE d

\* C17: every key of cache.entries is a lower-cased DOI and every entry's
\* doi field equals the key it is stored under (keys of a mapping are unique
\* by construction).
C17_KeysLowerCased ==
  \A d \in DOMAIN cache.entries :
    /\ d = DoiToLowerCase(d)
    /\ cache.entries[d].doi = d

\* C18: nothing joins the lookups of interleaved invocations: a processDoi
\* that starts while the cache has no entry for its DOI sends a metadata
\* request, also while the request of another invocation for the same DOI is
\* in flight; so two requests for one DOI can be in flight together.
C18_EveryMissFetches ==
  [][\A p \in Procs, d \in Dois :
       (StartsProcessDoi(p, d) /\ cache.hasEntries /\ d \notin DOMAIN cache.entries) =>
         /\ pc'[p] = "awaitMetadata"
         /\ call'[p].metaReqs = 1]_vars

\* two invocations of processDoi for the same DOI have both missed the cache
\* and both wait for the Metadata Client
C18_Witness ==
  \E p, q \in Procs :
    /\ p # q
    /\ call[p].op = "processDoi" /\ call[q].op = "processDoi"
    /\ call[p].doi = call[q].doi
    /\ pc[p] = "awaitMetadata" /\ pc[q] = "awaitMetadata"
    /\ call[p].metaReqs = 1 /\ call[q].metaReqs = 1
    /\ call[p].doi \notin DOMAIN cache.entries

\* a write of flow p to the cache file ends in this step
WriteEnds(p) ==
  /\ pc[p] \in {"awaitSaveMeta", "awaitSaveCredit", "awaitSaveClass", "awaitSaveLoad"}
  /\ call'[p] # call[p] \/ pc'[p] # pc[p]

\* C19: writes are blind under interleaving. When the metadata of an
\* invocation arrives, the entry of its DOI becomes a new entry without a
\* classification, whatever another invocation stored there meanwhile; and a
\* write that ends puts into the file the text built when saveCache was
\* called, whatever was written since. So an update of one invocation can be
\* overwritten by another.
C19_BlindWrites ==
  [][\A p \in Procs :
       /\ (pc[p] = "awaitMetadata" /\ pc'[p] = "awaitSaveMeta") =>
            cache'.entries[call[p].doi] = CacheEntry(call[p].doi, call'[p].meta, now)
       /\ WriteEnds(p) => file' = FileJson(pend[p])]_vars

\* both invocations have returned and no write is in flight; the
\* classification that invocation p attached is no longer in the entry (q
\* replaced the entry and attached its own), and the file holds fewer
\* credits than were counted
C19_Witness ==
  \E p, q \in Procs :
    /\ p # q
    /\ call[p].op = "processDoi" /\ call[q].op = "processDoi"
    /\ call[p].doi = call[q].doi
    /\ pc[p] = "idle" /\ pc[q] = "idle"
    /\ call[p].status = "returned" /\ call[q].status = "returned"
    /\ call[p].result = "normal-science"
    /\ cache.entries[call[p].doi].classification # call[p].label
    /\ file.kind = "json"
    /\ file.doc.creditsUsed < cache.creditsUsed

\* C20: the limit is checked before the request and the credit is counted
\* after it. Every request in flight passed the check, yet with two
\* invocations interleaved creditsUsed can pass the limit, by at most one per
\* further invocation; as long as one invocation alone has run it cannot.
C20_OverrunOnlyInterleaved ==
  /\ \A p \in Procs :
       pc[p] = "awaitClassify" => call[p].creditsAtClassify < CREDIT_LIMIT
  /\ cache.creditsUsed <= CREDIT_LIMIT + Cardinality(Procs) - 1
  /\ (\E p \in Procs : call[p] = NoCall) => cache.creditsUsed <= CREDIT_LIMIT

\* two invocations both passed the check at CREDIT_LIMIT - 1, both were
\* answered, and creditsUsed is above the limit
C20_Witness ==
  \E p, q \in Procs :
    /\ p # q
    /\ call[p].creditsAtClassify = CREDIT_LIMIT - 1
    /\ call[q].creditsAtClassify = CREDIT_LIMIT - 1
    /\ call[p].label # NoClass
    /\ call[q].label # NoClass
    /\ cache.creditsUsed > CREDIT_LIMIT

====
